---- MODULE Spec2Model ----
(***************************************************************************)
(* Model of spekev2_verification_testsuite/utils.py: the helpers of the    *)
(* SPEKE v2 verification test suite.  One behaviour of the model is one    *)
(* call of one helper: Init draws the helper, its arguments and the        *)
(* environment it runs in (file system, credentials, network), the         *)
(* actions run the helper's body, and `result` is what the caller gets:    *)
(* a returned value or a raised exception.                                 *)
(*                                                                         *)
(* Text is a sequence of Unicode code points and bytes are a sequence of   *)
(* numbers 0..255, so that the pattern of the regular expression, the      *)
(* rewritten HLS tag, UTF-8 and base64 are computed on the characters the  *)
(* program sees.  An XML document is a sequence of markup tokens.          *)
(***************************************************************************)
EXTENDS Integers, Sequences, FiniteSets, TLC

VARIABLES call, filename, disk, encoding, url, credentials, network,
          doc, elem, swaps, text, fault, data, pc, netloc, region, auth,
          credsResolved, posts, result

vars == <<call, filename, disk, encoding, url, credentials, network,
          doc, elem, swaps, text, fault, data, pc, netloc, region, auth,
          credsResolved, posts, result>>

(***************************************************************************)
(* Bounds of the model.                                                    *)
(***************************************************************************)
\* the number of text chunks a payload or a file is built from
MaxChunks == 3
\* the number of markup tokens of an XML document
MaxXmlLen == 6
\* the number of times the caller permutes siblings before the call
MaxSwaps == 2

(***************************************************************************)
(* Outcomes of a call: Python returns a value or raises an exception.      *)
(***************************************************************************)
Returned(v) == [status |-> "returned", value |-> v, error |-> "none"]

Raised(e) == [status |-> "raised", value |-> <<>>, error |-> e]

NotCalled == [status |-> "pending", value |-> <<>>, error |-> "none"]

(***************************************************************************)
(* Sequence helpers (str.find, str.startswith, slicing).                   *)
(***************************************************************************)
RECURSIVE Concat(_)
Concat(ss) == IF ss = <<>> THEN <<>> ELSE Head(ss) \o Concat(Tail(ss))

\* s[i:] of Python, for a 0-based offset i
From(s, i) == SubSeq(s, i + 1, Len(s))

\* s.startswith(p, i), for a 0-based offset i
StartsWithAt(s, p, i) ==
    /\ i + Len(p) <= Len(s)
    /\ \A k \in 1..Len(p) : s[i + k] = p[k]

\* the 0-based offsets at which p occurs in s
Occurrences(s, p) == {i \in 0..Len(s) : StartsWithAt(s, p, i)}

SetMin(S) == CHOOSE x \in S : \A y \in S : x <= y

SetMax(S) == CHOOSE x \in S : \A y \in S : x >= y

(***************************************************************************)
(* UTF-8, as str.encode('utf-8') and bytes.decode('utf-8') compute it.     *)
(***************************************************************************)
Utf8EncodeCodePoint(c) ==
    IF c < 128 THEN <<c>>
    ELSE IF c < 2048 THEN <<192 + (c \div 64), 128 + (c % 64)>>
    ELSE IF c < 65536
         THEN <<224 + (c \div 4096), 128 + ((c \div 64) % 64), 128 + (c % 64)>>
    ELSE <<240 + (c \div 262144), 128 + ((c \div 4096) % 64),
           128 + ((c \div 64) % 64), 128 + (c % 64)>>

\* the encodings of the characters, one after the other
RECURSIVE Utf8Encode(_)
Utf8Encode(s) ==
    IF s = <<>> THEN <<>>
    ELSE IF Len(s) = 1 THEN Utf8EncodeCodePoint(s[1])
    ELSE LET half == Len(s) \div 2
         IN Utf8Encode(SubSeq(s, 1, half)) \o Utf8Encode(SubSeq(s, half + 1, Len(s)))

IsContinuation(b, i) == i <= Len(b) /\ b[i] >= 128 /\ b[i] < 192

\* the code point that starts at byte i and the number of bytes it takes;
\* n = 0 when the bytes at i are no well-formed UTF-8 sequence (an invalid
\* start byte, a missing continuation byte, an overlong form, a surrogate,
\* a value above U+10FFFF)
Utf8DecodeAt(b, i) ==
    LET b0 == b[i] IN
    IF b0 < 128 THEN [n |-> 1, cp |-> b0]
    ELSE IF b0 >= 194 /\ b0 < 224 /\ IsContinuation(b, i + 1)
         THEN [n |-> 2, cp |-> (b0 - 192) * 64 + (b[i + 1] - 128)]
    ELSE IF b0 >= 224 /\ b0 < 240 /\ IsContinuation(b, i + 1)
            /\ IsContinuation(b, i + 2)
         THEN LET cp == (b0 - 224) * 4096 + (b[i + 1] - 128) * 64
                        + (b[i + 2] - 128)
              IN IF cp < 2048 \/ (cp >= 55296 /\ cp < 57344)
                 THEN [n |-> 0, cp |-> 0]
                 ELSE [n |-> 3, cp |-> cp]
    ELSE IF b0 >= 240 /\ b0 < 245 /\ IsContinuation(b, i + 1)
            /\ IsContinuation(b, i + 2) /\ IsContinuation(b, i + 3)
         THEN LET cp == (b0 - 240) * 262144 + (b[i + 1] - 128) * 4096
                        + (b[i + 2] - 128) * 64 + (b[i + 3] - 128)
              IN IF cp < 65536 \/ cp > 1114111
                 THEN [n |-> 0, cp |-> 0]
                 ELSE [n |-> 4, cp |-> cp]
    ELSE [n |-> 0, cp |-> 0]

\* The decoder reads one character after the other and raises at the first
\* byte that starts no well-formed sequence.  A character starts at a byte
\* that is no continuation byte, so the bytes are UTF-8 exactly when the
\* first byte starts a character and each character ends where the next one
\* starts (or the bytes end).
Utf8Decode(b) ==
    LET StartsChar(i) == ~IsContinuation(b, i)
        starts == SelectSeq([i \in 1..Len(b) |-> i], StartsChar)
        WellFormedAt(k) ==
            LET d == Utf8DecodeAt(b, starts[k]) IN
            /\ d.n # 0
            /\ starts[k] + d.n = (IF k < Len(starts) THEN starts[k + 1] ELSE Len(b) + 1)
    IN IF b = <<>> THEN Returned(<<>>)
       ELSE IF IsContinuation(b, 1) \/ \E k \in 1..Len(starts) : ~WellFormedAt(k)
       THEN Raised("UnicodeDecodeError")
       ELSE Returned([k \in 1..Len(starts) |-> Utf8DecodeAt(b, starts[k]).cp])

(***************************************************************************)
(* base64: the encoder the payloads are made with, and base64.b64decode    *)
(* with validate=False, which is binascii.a2b_base64 without strict mode.  *)
(***************************************************************************)
\* the character of a 6-bit value: A-Z, a-z, 0-9, + and /
B64Char(v) ==
    IF v < 26 THEN 65 + v
    ELSE IF v < 52 THEN 97 + (v - 26)
    ELSE IF v < 62 THEN 48 + (v - 52)
    ELSE IF v = 62 THEN 43 ELSE 47

\* the 6-bit value of a character, 64 for a character outside the alphabet
B64Value(c) ==
    IF c >= 65 /\ c <= 90 THEN c - 65
    ELSE IF c >= 97 /\ c <= 122 THEN c - 97 + 26
    ELSE IF c >= 48 /\ c <= 57 THEN c - 48 + 52
    ELSE IF c = 43 THEN 62
    ELSE IF c = 47 THEN 63 ELSE 64

ByteAt(b, i) == IF i <= Len(b) THEN b[i] ELSE 0

b64encode(b) ==
    [i \in 1..(4 * ((Len(b) + 2) \div 3)) |->
        LET g  == (i - 1) \div 4
            j  == (i - 1) % 4
            b0 == ByteAt(b, 3 * g + 1)
            b1 == ByteAt(b, 3 * g + 2)
            b2 == ByteAt(b, 3 * g + 3)
        IN CASE j = 0 -> B64Char(b0 \div 4)
             [] j = 1 -> B64Char((b0 % 4) * 16 + (b1 \div 16))
             [] j = 2 -> IF 3 * g + 2 > Len(b) THEN 61
                         ELSE B64Char((b1 % 16) * 4 + (b2 \div 64))
             [] j = 3 -> IF 3 * g + 3 > Len(b) THEN 61
                         ELSE B64Char(b2 % 64)]

\* a character of the alphabet ('=' is none)
IsB64Data(c) == B64Value(c) < 64

\* The decoder reads the input once, from left to right.  A character
\* outside the alphabet is skipped.  Data characters fill groups of four;
\* quad is the place in the group the next one takes.  A '=' ends the
\* input, whatever follows it, when it completes a group that holds two or
\* three data characters: with three, the first '=' after them; with two,
\* the second.  Any other '=' is skipped.
DataBefore(s, i) == Len(SelectSeq(SubSeq(s, 1, i - 1), IsB64Data))

\* the '=' from the last data character before position i up to i
PadsUpTo(s, i) ==
    LET before == {j \in 1..(i - 1) : IsB64Data(s[j])}
        since  == IF before = {} THEN 1 ELSE SetMax(before) + 1
    IN Cardinality({j \in since..i : s[j] = 61})

EndsInput(s, i) ==
    /\ s[i] = 61
    /\ LET quad == DataBefore(s, i) % 4 IN
       quad >= 2 /\ quad + PadsUpTo(s, i) >= 4

\* the byte of place j (from 0) made of the 6-bit values v
B64Byte(v, j) ==
    LET g == 4 * (j \div 3) IN
    CASE j % 3 = 0 -> B64Value(v[g + 1]) * 4 + (B64Value(v[g + 2]) \div 16)
      [] j % 3 = 1 -> (B64Value(v[g + 2]) % 16) * 16 + (B64Value(v[g + 3]) \div 4)
      [] j % 3 = 2 -> (B64Value(v[g + 3]) % 4) * 64 + B64Value(v[g + 4])

\* binascii.a2b_base64(s): the bytes of the data characters read, or
\* binascii.Error when the input ends inside a group
a2b_base64(s) ==
    LET stops == {i \in {j \in 1..Len(s) : s[j] = 61} : EndsInput(s, i)}
        read  == IF stops = {} THEN s ELSE SubSeq(s, 1, SetMin(stops) - 1)
        v     == SelectSeq(read, IsB64Data)
        rest  == Len(v) % 4
    IN IF stops = {} /\ rest # 0 THEN Raised("binascii.Error")
       ELSE Returned([j \in 1..(3 * (Len(v) \div 4) + (IF rest >= 2 THEN rest - 1 ELSE 0))
                        |-> B64Byte(v, j - 1)])

b64decode(s) == a2b_base64(s)

(***************************************************************************)
(* urllib.parse.urlparse(url).netloc.                                      *)
(***************************************************************************)
IsAsciiAlpha(c) == (c >= 65 /\ c <= 90) \/ (c >= 97 /\ c <= 122)

\* urllib.parse.scheme_chars: letters, digits, '+', '-' and '.'
IsSchemeChar(c) ==
    IsAsciiAlpha(c) \/ (c >= 48 /\ c <= 57) \/ c \in {43, 45, 46}

\* the URL without its scheme: what follows the first ':' when the text
\* before it is a scheme (it starts with a letter and holds scheme
\* characters only), the whole URL otherwise
AfterScheme(u) ==
    LET colons == {i \in 1..Len(u) : u[i] = 58} IN
    IF colons = {} THEN u
    ELSE LET i == SetMin(colons) IN
         IF i > 1 /\ IsAsciiAlpha(u[1]) /\ \A k \in 1..(i - 1) : IsSchemeChar(u[k])
         THEN From(u, i)
         ELSE u

\* _splitnetloc: after a leading '//', up to the first '/', '?' or '#'
urlparse_netloc(u) ==
    LET r == AfterScheme(u) IN
    IF ~StartsWithAt(r, <<47, 47>>, 0) THEN <<>>
    ELSE LET delims == {i \in 3..Len(r) : r[i] \in {47, 63, 35}}
             stop   == IF delims = {} THEN Len(r) + 1 ELSE SetMin(delims)
         IN SubSeq(r, 3, stop - 1)

(***************************************************************************)
(* re.match(r"[a-z0-9]+\.execute-api\.(.+)\.amazonaws\.com", netloc):      *)
(* the pattern is matched at the start of the text, and the text may go    *)
(* on after the match.                                                     *)
(***************************************************************************)
\* ".execute-api."
EXECUTE_API == <<46, 101, 120, 101, 99, 117, 116, 101, 45, 97, 112, 105, 46>>

\* ".amazonaws.com"
AMAZONAWS_COM == <<46, 97, 109, 97, 122, 111, 110, 97, 119, 115, 46, 99, 111, 109>>

\* [a-z0-9]
IsIdChar(c) == (c >= 97 /\ c <= 122) \/ (c >= 48 /\ c <= 57)

\* the length of the longest run of [a-z0-9] at the start of s
IdRun(s) ==
    LET stops == {i \in 1..Len(s) : ~IsIdChar(s[i])} IN
    IF stops = {} THEN Len(s) ELSE SetMin(stops) - 1

NoMatch == [matched |-> FALSE, group1 |-> <<>>]

\* [a-z0-9]+ takes the whole run (what follows it must be a '.'), then the
\* literal, then (.+) takes as much as it can: up to the last
\* ".amazonaws.com" that leaves it at least one character, none a newline
re_match(s) ==
    LET k == IdRun(s) IN
    IF k = 0 \/ ~StartsWithAt(s, EXECUTE_API, k) THEN NoMatch
    ELSE LET r    == From(s, k + Len(EXECUTE_API))
             ends == {j \in Occurrences(r, AMAZONAWS_COM) :
                        j >= 1 /\ \A i \in 1..j : r[i] # 10}
         IN IF ends = {} THEN NoMatch
            ELSE [matched |-> TRUE, group1 |-> SubSeq(r, 1, SetMax(ends))]

(***************************************************************************)
(* xml.etree.ElementTree: the markup tokens of a document, the events of   *)
(* iterparse, and the element tree the parser builds.                      *)
(***************************************************************************)
Tags == {"{urn:dashif:org:cpix}ContentKey", "{urn:dashif:org:cpix}DRMSystem"}

\* <t>, </t> and <t/>
Tokens == [kind : {"start", "end", "empty"}, tag : Tags]

Opens(tok) == tok.kind \in {"start", "empty"}

\* the (event, element) pairs iterparse yields, in order: one "end" event
\* per element, when its end tag (or its empty-element tag) is read.  The
\* parser raises ParseError on a mismatched or unexpected end tag, on markup
\* after the document element, and on a document that ends unfinished.
RECURSIVE iterparse_from(_, _, _, _, _)
iterparse_from(toks, i, stack, rootDone, events) ==
    IF i > Len(toks)
    THEN IF rootDone /\ stack = <<>> THEN Returned(events)
         ELSE Raised("ParseError")
    ELSE LET tok == toks[i] IN
         IF Opens(tok) /\ rootDone THEN Raised("ParseError")
         ELSE CASE tok.kind = "start" ->
                     iterparse_from(toks, i + 1, <<tok.tag>> \o stack, FALSE, events)
                [] tok.kind = "empty" ->
                     iterparse_from(toks, i + 1, stack, stack = <<>>,
                                    Append(events, <<"end", tok.tag>>))
                [] tok.kind = "end" ->
                     IF stack = <<>> \/ Head(stack) # tok.tag
                     THEN Raised("ParseError")
                     ELSE iterparse_from(toks, i + 1, Tail(stack),
                                         Len(stack) = 1,
                                         Append(events, <<"end", tok.tag>>))

iterparse(toks) == iterparse_from(toks, 1, <<>>, FALSE, <<>>)

\* the tree of a well-formed document: the elements in document order, each
\* with its tag and the list of its children (TreeBuilder.start appends the
\* new element to the element on top of the stack)
AddChild(nodes, parent, child) ==
    [nodes EXCEPT ![parent].children = Append(@, child)]

RECURSIVE tree_from(_, _, _, _)
tree_from(toks, i, stack, nodes) ==
    IF i > Len(toks) THEN nodes
    ELSE LET tok == toks[i]
             id  == Len(nodes) + 1
             new == Append(IF stack = <<>> THEN nodes
                           ELSE AddChild(nodes, Head(stack), id),
                           [tag |-> tok.tag, children |-> <<>>])
         IN CASE tok.kind = "start" -> tree_from(toks, i + 1, <<id>> \o stack, new)
              [] tok.kind = "empty" -> tree_from(toks, i + 1, stack, new)
              [] tok.kind = "end"   -> tree_from(toks, i + 1, Tail(stack), nodes)

ElementTree(toks) == tree_from(toks, 1, <<>>, <<>>)

(***************************************************************************)
(* collections.Counter, as dict(zip(Counter(x).keys(), Counter(x).values()))*)
(***************************************************************************)
\* Counter with the bug of counting runs (itertools.groupby on an unsorted
\* list): each tag gets the length of its last run
CounterOfLastRun(xs) ==
    [t \in {xs[i] : i \in DOMAIN xs} |->
        LET last   == SetMax({i \in DOMAIN xs : xs[i] = t})
            others == {j \in 1..last : xs[j] # t}
        IN last - (IF others = {} THEN 0 ELSE SetMax(others))]

Counter(xs) ==
    [t \in {xs[i] : i \in DOMAIN xs} |-> Cardinality({i \in DOMAIN xs : xs[i] = t})]

\* d.get(k, 0)
Get(d, k) == IF k \in DOMAIN d THEN d[k] ELSE 0

(***************************************************************************)
(* The helpers of utils.py.                                                *)
(***************************************************************************)
\* "./spekev2_requests/"
REQUESTS_DIR == <<46, 47, 115, 112, 101, 107, 101, 118, 50, 95, 114, 101, 113,
                  117, 101, 115, 116, 115, 47>>

\* str.isspace, for the characters up to U+00A0
IsSpace(c) == (c >= 9 /\ c <= 13) \/ (c >= 28 /\ c <= 32) \/ c \in {133, 160}

\* str.strip()
strip(s) ==
    LET keep == {i \in 1..Len(s) : ~IsSpace(s[i])} IN
    IF keep = {} THEN <<>> ELSE SubSeq(s, SetMin(keep), SetMax(keep))

\* the text a file opened in mode "r" is read as: its bytes decoded in the
\* locale's encoding, errors strict
TextDecode(enc, bytes) == IF enc = "utf-8" THEN Utf8Decode(bytes) ELSE Returned(bytes)

\* newline=None of open(): "\r\n" and "\r" are read as "\n"
UniversalNewlines(s) ==
    LET \* "\r" is read as "\n", and the "\n" of a "\r\n" is dropped (-1)
        read == [i \in 1..Len(s) |->
                    IF s[i] = 13 THEN 10
                    ELSE IF s[i] = 10 /\ i > 1 /\ s[i - 1] = 13 THEN -1
                    ELSE s[i]]
        Kept(c) == c # -1
    IN SelectSeq(read, Kept)

\* open(path, "r").read()
ReadText(path, dsk, enc) ==
    IF path # dsk.path THEN Raised("FileNotFoundError")
    ELSE LET decoded == TextDecode(enc, dsk.content) IN
         IF decoded.status = "raised" THEN decoded
         ELSE Returned(UniversalNewlines(decoded.value))

read_xml_file_contents(fname, dsk, enc) ==
    LET read == ReadText(REQUESTS_DIR \o strip(fname), dsk, enc) IN
    IF read.status = "raised" THEN read
    ELSE Returned(Utf8Encode(read.value))

\* the tag of what iterparse yields: of the element of an (event, element)
\* pair, or of a bare element
EventTag(element) == IF Len(element) = 2 THEN element[2] ELSE element[1]

\* count_tags with the bug of catching the parser's error
count_tags_catching(xml_content) ==
    LET events == iterparse(xml_content) IN
    IF events.status = "raised" THEN Returned(<<>>)
    ELSE Returned(Counter([i \in DOMAIN events.value |-> EventTag(events.value[i])]))

\* count_tags with the bug of asking iterparse for the "start" and the "end"
\* events: every element is read twice
count_tags_start_and_end(xml_content) ==
    LET events == iterparse(xml_content) IN
    IF events.status = "raised" THEN events
    ELSE Returned(Counter([i \in 1..(2 * Len(events.value)) |->
                              EventTag(events.value[(i + 1) \div 2])]))

count_tags(xml_content) ==
    LET events == iterparse(xml_content) IN
    IF events.status = "raised" THEN events
    ELSE Returned(Counter([i \in DOMAIN events.value |-> EventTag(events.value[i])]))

\* count_child_element_tags_for_element with the bug of iterating over
\* parent_element.iter(): the element itself and all that is below it
RECURSIVE Below(_, _)
Below(nodes, ids) ==
    LET more == ids \cup UNION {{nodes[n].children[i] : i \in DOMAIN nodes[n].children} :
                                  n \in ids}
    IN IF more = ids THEN ids ELSE Below(nodes, more)

count_descendant_tags(nodes, parent) ==
    Returned(Counter([i \in 1..Cardinality(Below(nodes, {parent})) |->
                         nodes[parent + i - 1].tag]))

\* parent_element is element `parent` of the tree `nodes`
count_child_element_tags_for_element(nodes, parent) ==
    Returned(Counter([i \in DOMAIN nodes[parent].children |->
                         nodes[nodes[parent].children[i]].tag]))

\* decode_b64_bytes with the bug of decoding the bytes as Latin-1
decode_b64_bytes_latin1(text_in_bytes) ==
    LET decoded == b64decode(text_in_bytes) IN
    IF decoded.status = "raised" THEN decoded
    ELSE Returned(decoded.value)

decode_b64_bytes(text_in_bytes) ==
    LET decoded == b64decode(text_in_bytes) IN
    IF decoded.status = "raised" THEN decoded
    ELSE Utf8Decode(decoded.value)

\* "#EXT-X-SESSION-KEY:METHOD"
EXT_X_SESSION_KEY_METHOD == <<35, 69, 88, 84, 45, 88, 45, 83, 69, 83, 83, 73, 79,
                              78, 45, 75, 69, 89, 58, 77, 69, 84, 72, 79, 68>>

\* "#EXT-X-KEY:METHOD"
EXT_X_KEY_METHOD == <<35, 69, 88, 84, 45, 88, 45, 75, 69, 89, 58, 77, 69, 84, 72,
                      79, 68>>

\* str.replace(old, new): every occurrence of old (not empty), found from
\* left to right, none overlapping the one before it
RECURSIVE str_replace(_, _, _)
str_replace(s, old, new) ==
    LET found == Occurrences(s, old) IN
    IF found = {} THEN s
    ELSE LET i == SetMin(found)
         IN SubSeq(s, 1, i) \o new \o str_replace(From(s, i + Len(old)), old, new)

\* m3u8.loads(content): the playlist object, a function of the text it is
\* handed alone
m3u8_loads(content) == Returned([playlist_of |-> content])

parse_ext_x_key_contents(text_in_bytes) ==
    LET decoded_text == decode_b64_bytes(text_in_bytes) IN
    IF decoded_text.status = "raised" THEN decoded_text
    ELSE m3u8_loads(decoded_text.value)

\* str.replace(old, new, 1)
str_replace_first(s, old, new) ==
    LET found == Occurrences(s, old) IN
    IF found = {} THEN s
    ELSE SubSeq(s, 1, SetMin(found)) \o new \o From(s, SetMin(found) + Len(old))

\* parse_ext_x_session_key_contents with the bug of rewriting one tag only
parse_ext_x_session_key_contents_first_only(text_in_bytes) ==
    LET decoded_text == decode_b64_bytes(text_in_bytes) IN
    IF decoded_text.status = "raised" THEN decoded_text
    ELSE m3u8_loads(str_replace_first(decoded_text.value, EXT_X_SESSION_KEY_METHOD,
                                      EXT_X_KEY_METHOD))

\* parse_ext_x_session_key_contents with the bug of not rewriting the tag
parse_ext_x_session_key_contents_unrewritten(text_in_bytes) ==
    LET decoded_text == decode_b64_bytes(text_in_bytes) IN
    IF decoded_text.status = "raised" THEN decoded_text
    ELSE m3u8_loads(decoded_text.value)

parse_ext_x_session_key_contents(text_in_bytes) ==
    LET decoded_text == decode_b64_bytes(text_in_bytes) IN
    IF decoded_text.status = "raised" THEN decoded_text
    ELSE m3u8_loads(str_replace(decoded_text.value, EXT_X_SESSION_KEY_METHOD,
                                EXT_X_KEY_METHOD))

\* AWSRequestsAuth(aws_host=..., aws_region=..., aws_service='execute-api')
AWSRequestsAuth(host, reg) ==
    [aws_host |-> host, aws_region |-> reg, aws_service |-> "execute-api"]

NoAuth == [aws_host |-> <<>>, aws_region |-> <<>>, aws_service |-> ""]

\* requests.post(...): the response, whatever its status, or the exception
\* of a request that could not be made
requests_post(net) ==
    IF net.outcome = "error" THEN Raised("ConnectionError")
    ELSE Returned([status_code |-> net.status_code])

(***************************************************************************)
(* The inputs of a call.                                                   *)
(***************************************************************************)
\* the texts made of at most n chunks of the set chunks
ChunkTexts(chunks, n) ==
    {Concat(cs) : cs \in UNION {[1..k -> chunks] : k \in 0..n}}

\* "#EXT-X-SESSION-KEY:METHOD", "#EXT-X-KEY:METHOD", "SESSION-KEY",
\* "=AES-128\n", and text of two, three and four bytes a character:
\* U+00E9 U+20AC, and U+1F600 "A"
TextChunks ==
    {EXT_X_SESSION_KEY_METHOD, EXT_X_KEY_METHOD,
     <<83, 69, 83, 83, 73, 79, 78, 45, 75, 69, 89>>,
     <<61, 65, 69, 83, 45, 49, 50, 56, 10>>,
     <<233, 8364>>, <<128512, 65>>}

Texts == ChunkTexts(TextChunks, MaxChunks)

\* what is passed as text_in_bytes: the base64 encoding of the text; the
\* encoding cut short by a character; the encoding of bytes that are not
\* UTF-8; the encoding followed by a line break
Faults == {"none", "truncated", "not_utf8", "line_break"}

Payload(t, f) ==
    LET encoded == b64encode(Utf8Encode(t)) IN
    CASE f = "none"       -> encoded
      [] f = "truncated"  -> SubSeq(encoded, 1, Len(encoded) - 1)
      [] f = "not_utf8"   -> b64encode(Utf8Encode(t) \o <<255>>)
      [] f = "line_break" -> encoded \o <<10>>

\* the bytes of a fixture file: "<a/>", "\r\n", "\r", "\n", U+00E9 in UTF-8,
\* and a byte no UTF-8 text holds
FileChunks ==
    {<<60, 97, 47, 62>>, <<13, 10>>, <<13>>, <<10>>, <<195, 169>>, <<255>>}

\* "1_generic.xml", the file on the disk
FIXTURE == <<49, 95, 103, 101, 110, 101, 114, 105, 99, 46, 120, 109, 108>>

Disks == [path : {REQUESTS_DIR \o FIXTURE}, content : ChunkTexts(FileChunks, MaxChunks)]

\* the fixture's name or "missing.xml", with and without white space around
Filenames ==
    {before \o name \o after :
        before \in {<<>>, <<32>>, <<10, 9>>},
        name \in {FIXTURE, <<109, 105, 115, 115, 105, 110, 103, 46, 120, 109, 108>>},
        after \in {<<>>, <<10>>}}

Encodings == {"utf-8", "latin-1"}

\* hosts: an id ("abc123", "Abc", none), ".execute-api." or ".execute.", a
\* region ("us-east-1", "eu.west", none), ".amazonaws.com" or
\* ".amazonaws.org", and what may follow (nothing, ".evil.example", "pany")
Hosts ==
    {id \o svc \o reg \o dom \o more :
        id   \in {<<97, 98, 99, 49, 50, 51>>, <<65, 98, 99>>, <<>>},
        svc  \in {EXECUTE_API, <<46, 101, 120, 101, 99, 117, 116, 101, 46>>},
        reg  \in {<<117, 115, 45, 101, 97, 115, 116, 45, 49>>,
                  <<101, 117, 46, 119, 101, 115, 116>>, <<>>},
        dom  \in {AMAZONAWS_COM,
                  <<46, 97, 109, 97, 122, 111, 110, 97, 119, 115, 46, 111, 114, 103>>},
        more \in {<<>>, <<46, 101, 118, 105, 108, 46, 101, 120, 97, 109, 112, 108, 101>>,
                  <<112, 97, 110, 121>>}}

\* "https://", "//" or nothing, a host, and "/prod" or nothing
Urls ==
    {scheme \o host \o path :
        scheme \in {<<104, 116, 116, 112, 115, 58, 47, 47>>, <<47, 47>>, <<>>},
        host \in Hosts,
        path \in {<<47, 112, 114, 111, 100>>, <<>>}}

\* boto_utils.get_credentials() finds credentials or fails
CredentialStates == {"available", "unavailable"}

\* the request fails on the network, or the service answers
Networks ==
    {[outcome |-> "error", status_code |-> 0]}
    \cup [outcome : {"response"}, status_code : {200, 403, 500}]

NoNetwork == [outcome |-> "error", status_code |-> 0]

NoDisk == [path |-> <<>>, content |-> <<>>]

Documents == UNION {[1..n -> Tokens] : n \in 0..MaxXmlLen}

WellFormedDocuments == {d \in Documents : iterparse(d).status = "returned"}

(***************************************************************************)
(* Init: one call of one helper.                                           *)
(***************************************************************************)
NoFile == filename = <<>> /\ disk = NoDisk /\ encoding = "utf-8"

NoUrl == url = <<>> /\ credentials = "available" /\ network = NoNetwork

NoDocument == doc = <<>> /\ elem = 0 /\ swaps = 0

NoPayload == text = <<>> /\ fault = "none" /\ data = <<>>

Start ==
    /\ pc = "start" /\ netloc = <<>> /\ region = <<>> /\ auth = NoAuth
    /\ credsResolved = 0 /\ posts = 0 /\ result = NotCalled

InitRead ==
    /\ call = "read_xml_file_contents"
    /\ filename \in Filenames /\ disk \in Disks /\ encoding \in Encodings
    /\ NoUrl /\ NoDocument /\ NoPayload /\ Start

InitAuth ==
    /\ call = "get_aws_auth"
    /\ url \in Urls /\ credentials \in CredentialStates /\ network = NoNetwork
    /\ NoFile /\ NoDocument /\ NoPayload /\ Start

InitRequest ==
    /\ call = "speke_v2_request"
    /\ url \in Urls /\ credentials \in CredentialStates /\ network \in Networks
    /\ NoFile /\ NoDocument /\ NoPayload /\ Start

InitCountTags ==
    /\ call = "count_tags"
    /\ doc \in Documents /\ elem = 0 /\ swaps = 0
    /\ NoFile /\ NoUrl /\ NoPayload /\ Start

InitCountChildren ==
    /\ call = "count_child_element_tags_for_element"
    /\ doc \in WellFormedDocuments
    /\ elem \in 1..Len(ElementTree(doc)) /\ swaps = 0
    /\ NoFile /\ NoUrl /\ NoPayload /\ Start

InitDecode ==
    /\ call \in {"decode_b64_bytes", "parse_ext_x_key_contents",
                 "parse_ext_x_session_key_contents"}
    /\ text \in Texts /\ fault \in Faults /\ data = Payload(text, fault)
    /\ NoFile /\ NoUrl /\ NoDocument /\ Start

Init ==
    \/ InitRead
    \/ InitAuth
    \/ InitRequest
    \/ InitCountTags
    \/ InitCountChildren
    \/ InitDecode

(***************************************************************************)
(* The actions: the body of each helper.                                   *)
(***************************************************************************)
Inputs == <<call, filename, disk, encoding, url, credentials, network,
            elem, text, fault, data>>

AuthState == <<netloc, region, auth, credsResolved, posts>>

\* a helper that is one expression: it returns or raises in one step
Finish(outcome) ==
    /\ pc = "start"
    /\ result' = outcome
    /\ pc' = "done"
    /\ UNCHANGED <<Inputs, doc, swaps, AuthState>>

ReadXmlFileContents ==
    /\ call = "read_xml_file_contents"
    /\ Finish(read_xml_file_contents(filename, disk, encoding))

CountTags ==
    /\ call = "count_tags"
    /\ Finish(count_tags(doc))

CountChildElementTags ==
    /\ call = "count_child_element_tags_for_element"
    /\ Finish(count_child_element_tags_for_element(ElementTree(doc), elem))

DecodeB64Bytes ==
    /\ call = "decode_b64_bytes"
    /\ Finish(decode_b64_bytes(data))

ParseExtXKeyContents ==
    /\ call = "parse_ext_x_key_contents"
    /\ Finish(parse_ext_x_key_contents(data))

ParseExtXSessionKeyContents ==
    /\ call = "parse_ext_x_session_key_contents"
    /\ Finish(parse_ext_x_session_key_contents(data))

\* get_aws_auth, alone or as the auth argument of requests.post, which is
\* evaluated before the request is made
ParseUrl ==
    /\ call \in {"get_aws_auth", "speke_v2_request"}
    /\ pc = "start"
    /\ netloc' = urlparse_netloc(url)
    /\ pc' = "match"
    /\ UNCHANGED <<Inputs, doc, swaps, region, auth, credsResolved, posts, result>>

\* MatchRegion with the bug of going on without a region when the host does
\* not match
MatchRegionDefaulting ==
    /\ pc = "match"
    /\ region' = re_match(netloc).group1
    /\ pc' = "credentials"
    /\ UNCHANGED <<Inputs, doc, swaps, netloc, auth, credsResolved, posts, result>>

\* re.match(...).group(1): None has no group
MatchRegion ==
    /\ pc = "match"
    /\ LET m == re_match(netloc) IN
       IF m.matched
       THEN /\ region' = m.group1
            /\ pc' = "credentials"
            /\ UNCHANGED result
       ELSE /\ result' = Raised("AttributeError")
            /\ pc' = "done"
            /\ UNCHANGED region
    /\ UNCHANGED <<Inputs, doc, swaps, netloc, auth, credsResolved, posts>>

\* **boto_utils.get_credentials()
GetCredentials ==
    /\ pc = "credentials"
    /\ credsResolved' = credsResolved + 1
    /\ IF credentials = "available"
       THEN pc' = "construct" /\ UNCHANGED result
       ELSE pc' = "done" /\ result' = Raised("CredentialsError")
    /\ UNCHANGED <<Inputs, doc, swaps, netloc, region, auth, posts>>

ConstructAuth ==
    /\ pc = "construct"
    /\ auth' = AWSRequestsAuth(netloc, region)
    /\ IF call = "get_aws_auth"
       THEN pc' = "done" /\ result' = Returned(auth')
       ELSE pc' = "post" /\ UNCHANGED result
    /\ UNCHANGED <<Inputs, doc, swaps, netloc, region, credsResolved, posts>>

Post ==
    /\ pc = "post"
    /\ posts' = posts + 1
    /\ result' = requests_post(network)
    /\ pc' = "done"
    /\ UNCHANGED <<Inputs, doc, swaps, netloc, region, auth, credsResolved>>

(***************************************************************************)
(* The caller permutes sibling elements of the document before the call.   *)
(***************************************************************************)
\* the position of the end tag of the element that starts at position p
RECURSIVE EndFrom(_, _, _)
EndFrom(toks, i, depth) ==
    CASE toks[i].kind = "empty" -> EndFrom(toks, i + 1, depth)
      [] toks[i].kind = "start" -> EndFrom(toks, i + 1, depth + 1)
      [] toks[i].kind = "end"   -> IF depth = 1 THEN i
                                   ELSE EndFrom(toks, i + 1, depth - 1)

SpanEnd(toks, p) == IF toks[p].kind = "empty" THEN p ELSE EndFrom(toks, p + 1, 1)

\* the element (in document order) whose markup starts at position p
ElementAt(toks, p) == Cardinality({i \in 1..p : Opens(toks[i])})

IsChildOf(toks, child, parent) ==
    \E i \in DOMAIN ElementTree(toks)[parent].children :
        ElementTree(toks)[parent].children[i] = child

\* the element at p changes places with the sibling that follows it
Swapped(toks, p) ==
    LET q == SpanEnd(toks, p)
        r == SpanEnd(toks, q + 1)
    IN SubSeq(toks, 1, p - 1) \o SubSeq(toks, q + 1, r) \o SubSeq(toks, p, q)
       \o SubSeq(toks, r + 1, Len(toks))

SwapSiblings ==
    /\ call \in {"count_tags", "count_child_element_tags_for_element"}
    /\ pc = "start"
    /\ swaps < MaxSwaps
    /\ swaps' = swaps + 1
    /\ iterparse(doc).status = "returned"
    /\ \E p \in 2..Len(doc) :
          /\ Opens(doc[p])
          /\ SpanEnd(doc, p) < Len(doc)
          /\ Opens(doc[SpanEnd(doc, p) + 1])
          /\ call = "count_child_element_tags_for_element"
                => IsChildOf(doc, ElementAt(doc, p), elem)
          /\ doc' = Swapped(doc, p)
    /\ UNCHANGED <<Inputs, pc, AuthState, result>>

Next ==
    \/ ReadXmlFileContents
    \/ ParseUrl
    \/ MatchRegion
    \/ GetCredentials
    \/ ConstructAuth
    \/ Post
    \/ CountTags
    \/ CountChildElementTags
    \/ DecodeB64Bytes
    \/ ParseExtXKeyContents
    \/ ParseExtXSessionKeyContents
    \/ SwapSiblings

Spec == Init /\ [][Next]_vars

(***************************************************************************)
(* What the claims speak of.                                               *)
(***************************************************************************)
Done(f) == call = f /\ pc = "done"

\* a host of the form <id>.execute-api.<region>.amazonaws.com, from its
\* first character to its last, and its region
IsApiGatewayHost(h, k) ==
    /\ k >= 1
    /\ \A i \in 1..k : IsIdChar(h[i])
    /\ StartsWithAt(h, EXECUTE_API, k)
    /\ Len(h) > k + Len(EXECUTE_API) + Len(AMAZONAWS_COM)
    /\ StartsWithAt(h, AMAZONAWS_COM, Len(h) - Len(AMAZONAWS_COM))
    /\ \A i \in 1..Len(h) : h[i] # 10

MatchesApiGatewayPattern(h) == \E k \in 1..Len(h) : IsApiGatewayHost(h, k)

RegionOf(h) ==
    LET k == CHOOSE k \in 1..Len(h) : IsApiGatewayHost(h, k)
    IN SubSeq(h, k + Len(EXECUTE_API) + 1, Len(h) - Len(AMAZONAWS_COM))

\* "SESSION-KEY" and "KEY"
SESSION_KEY == <<83, 69, 83, 83, 73, 79, 78, 45, 75, 69, 89>>

KEY == <<75, 69, 89>>

\* the text holds a "#EXT-X-SESSION-KEY:METHOD=" tag
HoldsSessionKeyTag(t) ==
    \E i \in Occurrences(t, EXT_X_SESSION_KEY_METHOD) :
        StartsWithAt(t, <<61>>, i + Len(EXT_X_SESSION_KEY_METHOD))

\* "SESSION-KEY" occurs in the text only as part of "#EXT-X-SESSION-KEY:METHOD"
SessionKeyOnlyInTags(t) ==
    \A i \in Occurrences(t, SESSION_KEY) :
        i >= 7 /\ StartsWithAt(t, EXT_X_SESSION_KEY_METHOD, i - 7)

\* the text without the "SESSION-" of each "#EXT-X-SESSION-KEY:METHOD"
WithoutSessionParts(t) ==
    LET Kept(i) == \A o \in Occurrences(t, EXT_X_SESSION_KEY_METHOD) :
                       i < o + 8 \/ i > o + 15
        kept == SelectSeq([i \in 1..Len(t) |-> i], Kept)
    IN [k \in 1..Len(kept) |-> t[kept[k]]]

\* the number of elements open before position p
DepthBefore(toks, p) ==
    Cardinality({i \in 1..(p - 1) : toks[i].kind = "start"})
    - Cardinality({i \in 1..(p - 1) : toks[i].kind = "end"})

\* the position at which the element that starts at p ends
CloseOf(toks, p) ==
    IF toks[p].kind = "empty" THEN p
    ELSE SetMin({q \in (p + 1)..Len(toks) :
                    toks[q].kind = "end" /\ DepthBefore(toks, q) = DepthBefore(toks, p) + 1})

\* where the children of the element that starts at p start
ChildStarts(toks, p) ==
    {j \in (p + 1)..(CloseOf(toks, p) - 1) :
        Opens(toks[j]) /\ DepthBefore(toks, j) = DepthBefore(toks, p) + 1}

Subtree(toks, p) == SubSeq(toks, p, CloseOf(toks, p))

\* the sum over the subtrees that start at the positions S of the count of t
\* in the table of count_tags of the subtree
RECURSIVE SumOfCounts(_, _, _)
SumOfCounts(toks, S, t) ==
    IF S = {} THEN 0
    ELSE LET p == SetMin(S)
         IN Get(count_tags(Subtree(toks, p)).value, t) + SumOfCounts(toks, S \ {p}, t)

\* where element e (in document order) starts
StartOf(toks, e) ==
    CHOOSE p \in 1..Len(toks) :
        Opens(toks[p]) /\ Cardinality({i \in 1..p : Opens(toks[i])}) = e

(***************************************************************************)
(* The claims.                                                             *)
(***************************************************************************)

\* C1 (as claimed): with credentials at hand, get_aws_auth raises for every
\* URL whose host is not <id>.execute-api.<region>.amazonaws.com from its
\* first character to its last, and for every host that is returns the auth
\* object of that host, its region and the service execute-api.
C1_RaisesUnlessHostMatches ==
    (Done("get_aws_auth") /\ credentials = "available") =>
        LET host == urlparse_netloc(url) IN
        IF MatchesApiGatewayPattern(host)
        THEN result = Returned(AWSRequestsAuth(host, RegionOf(host)))
        ELSE result.status = "raised"

\* C2 (as claimed): for a payload that holds a "#EXT-X-SESSION-KEY:METHOD="
\* tag, parse_ext_x_session_key_contents returns what
\* parse_ext_x_key_contents returns for the base64 encoding of the text with
\* "SESSION-KEY" replaced by "KEY".
C2_SameAsKeyOfReplacedText ==
    (Done("parse_ext_x_session_key_contents") /\ fault = "none"
     /\ HoldsSessionKeyTag(text)) =>
        result = parse_ext_x_key_contents(
                     b64encode(Utf8Encode(str_replace(text, SESSION_KEY, KEY))))

\* C2 (amended): the same, for the payloads in which "SESSION-KEY" occurs
\* only as part of "#EXT-X-SESSION-KEY:METHOD".
C2_SameAsKeyOfReplacedTagNames ==
    (Done("parse_ext_x_session_key_contents") /\ fault = "none"
     /\ HoldsSessionKeyTag(text) /\ SessionKeyOnlyInTags(text)) =>
        result = parse_ext_x_key_contents(
                     b64encode(Utf8Encode(str_replace(text, SESSION_KEY, KEY))))

C2_Witness ==
    /\ Done("parse_ext_x_session_key_contents") /\ fault = "none"
    /\ HoldsSessionKeyTag(text) /\ SessionKeyOnlyInTags(text)
    /\ result.status = "returned"
    /\ Occurrences(result.value.playlist_of, EXT_X_KEY_METHOD) # {}

\* C3 (as claimed): for a fixture file that exists, is not empty and holds
\* UTF-8 text, read in a UTF-8 locale, read_xml_file_contents returns bytes
\* that are not empty, decode as UTF-8 and equal the file's bytes on the disk.
C3_ReturnsTheBytesOnDisk ==
    (Done("read_xml_file_contents") /\ REQUESTS_DIR \o strip(filename) = disk.path
     /\ encoding = "utf-8" /\ disk.content # <<>>
     /\ Utf8Decode(disk.content).status = "returned") =>
        /\ result.status = "returned"
        /\ result.value # <<>>
        /\ Utf8Decode(result.value).status = "returned"
        /\ result.value = disk.content

\* what a failure inside each helper must come to, in the words of C4:
\* the caller gets the exception of the operation that failed
FailuresReachTheCaller ==
    /\ Done("read_xml_file_contents") =>
          IF REQUESTS_DIR \o strip(filename) # disk.path
          THEN result = Raised("FileNotFoundError")
          ELSE TextDecode(encoding, disk.content).status = "raised"
                  => result = Raised("UnicodeDecodeError")
    /\ (Done("get_aws_auth") \/ Done("speke_v2_request")) =>
          IF ~re_match(urlparse_netloc(url)).matched
          THEN result = Raised("AttributeError")
          ELSE credentials = "unavailable" => result = Raised("CredentialsError")
    /\ (Done("speke_v2_request") /\ posts = 1 /\ network.outcome = "error") =>
          result = Raised("ConnectionError")
    /\ (Done("count_tags") /\ iterparse(doc).status = "raised") =>
          result = Raised("ParseError")
    /\ (pc = "done" /\ call \in {"decode_b64_bytes", "parse_ext_x_key_contents",
                                 "parse_ext_x_session_key_contents"}) =>
          IF b64decode(data).status = "raised"
          THEN result = Raised("binascii.Error")
          ELSE Utf8Decode(b64decode(data).value).status = "raised"
                  => result = Raised("UnicodeDecodeError")

C5_Additive ==
    (Done("count_tags") /\ result.status = "returned") =>
        /\ \A p \in ChildStarts(doc, 1) :
              count_tags(Subtree(doc, p)).status = "returned"
        /\ \A t \in Tags :
              Get(result.value, t)
                 = (IF doc[1].tag = t THEN 1 ELSE 0)
                   + SumOfCounts(doc, ChildStarts(doc, 1), t)
        /\ DOMAIN result.value \subseteq Tags
        /\ Get(result.value, "{urn:dashif:org:cpix}ContentKey")
              + Get(result.value, "{urn:dashif:org:cpix}DRMSystem")
              = Cardinality({i \in 1..Len(doc) : Opens(doc[i])})

C5_Witness ==
    /\ Done("count_tags") /\ result.status = "returned"
    /\ Cardinality(ChildStarts(doc, 1)) >= 2
    /\ \E p \in ChildStarts(doc, 1) : ChildStarts(doc, p) # {}

\* C6: a permutation of sibling elements changes neither the table of
\* count_tags nor the table of count_child_element_tags_for_element of the
\* parent whose children are permuted.
C6_OrderIndependent ==
    [][doc' # doc =>
          /\ count_tags(doc') = count_tags(doc)
          /\ call = "count_child_element_tags_for_element" =>
                count_child_element_tags_for_element(ElementTree(doc'), elem)
                   = count_child_element_tags_for_element(ElementTree(doc), elem)]_vars

C6_Witness ==
    /\ Done("count_child_element_tags_for_element") /\ swaps >= 1
    /\ result.status = "returned"
    /\ Cardinality(DOMAIN result.value) = 2

\* C7: decode_b64_bytes returns the text T for the base64 encoding of the
\* UTF-8 bytes of T.
C7_LeftInverse ==
    (Done("decode_b64_bytes") /\ data = b64encode(Utf8Encode(text))) =>
        result = Returned(text)

C7_Witness ==
    /\ Done("decode_b64_bytes") /\ data = b64encode(Utf8Encode(text))
    /\ result = Returned(text)
    /\ \E i \in 1..Len(text) : text[i] > 65535
    /\ Len(data) % 4 = 0 /\ data[Len(data)] = 61

\* C8 (as claimed): only the first "#EXT-X-SESSION-KEY:METHOD" of the decoded
\* text is rewritten; what follows it reaches the parser as it is.
C8_RewritesFirstOnly ==
    (Done("parse_ext_x_session_key_contents") /\ fault = "none") =>
        result = m3u8_loads(str_replace_first(text, EXT_X_SESSION_KEY_METHOD,
                                              EXT_X_KEY_METHOD))

\* C8 (amended): every "#EXT-X-SESSION-KEY:METHOD" of the decoded text is
\* rewritten to "#EXT-X-KEY:METHOD": the parser gets the text without the
\* "SESSION-" of each of them, all other text as it is, and no
\* "#EXT-X-SESSION-KEY:METHOD" is left.
C8_RewritesEvery ==
    (Done("parse_ext_x_session_key_contents") /\ fault = "none") =>
        /\ result = m3u8_loads(WithoutSessionParts(text))
        /\ Occurrences(result.value.playlist_of, EXT_X_SESSION_KEY_METHOD) = {}

C8_Witness ==
    /\ Done("parse_ext_x_session_key_contents") /\ fault = "none"
    /\ Cardinality(Occurrences(text, EXT_X_SESSION_KEY_METHOD)) >= 2
    /\ result.status = "returned"
    /\ Len(result.value.playlist_of) = Len(text) - 16

\* C9: the table of count_child_element_tags_for_element holds, for every
\* tag, the number of children of the parent with the tag: the elements
\* one level below it, not the parent and not what is deeper.
C9_ImmediateChildrenOnly ==
    Done("count_child_element_tags_for_element") =>
        /\ result.status = "returned"
        /\ DOMAIN result.value \subseteq Tags
        /\ \A t \in Tags :
              Get(result.value, t)
                 = Cardinality({j \in ChildStarts(doc, StartOf(doc, elem)) :
                                   doc[j].tag = t})

C9_Witness ==
    /\ Done("count_child_element_tags_for_element")
    /\ \E j \in ChildStarts(doc, StartOf(doc, elem)) :
          \E g \in ChildStarts(doc, j) : doc[g].tag = doc[j].tag
    /\ result.status = "returned"
    /\ \E t \in Tags : Get(result.value, t) = 1

====
